---- MODULE Spec2Model ----
(***************************************************************************)
(* The CephObjectStore reconciler of pkg/operator/ceph/object/controller.go *)
(* as a state machine.  One ReconcileCephObjectStore value `r` serves every *)
(* resource key; the dispatcher runs at most one reconcile call per key,    *)
(* calls for different keys interleave.  Every action is one step of        *)
(* reconcile() between two interactions with the outside (the API server,   *)
(* the Ceph cluster) or with the shared fields of `r`.                      *)
(*                                                                         *)
(* Spec: one record exists, any outside operation may fail, the record may  *)
(* be marked for deletion and collected at any moment.  SpecConc: records   *)
(* in two namespaces whose calls interleave, with the outside in order.     *)
(* SpecLive: Spec with the dispatcher's fairness and an outside that may    *)
(* settle down for good.  SpecTwin: one call each on two records that       *)
(* differ only in their Phase, the outside answering both alike.            *)
(* `log` records, per call, each outside operation invoked and its outcome; *)
(* the properties below are stated over it and over the stored record.      *)
(***************************************************************************)
EXTENDS Naturals, Sequences, FiniteSets, TLC

VARIABLES
    store,   \* the API server's CephObjectStore records, one per key
    pc,      \* position of the reconcile call in flight for each key
    obj,     \* cephObjectStore: the call's in-memory copy of the record
    loc,     \* the call's local variables
    rSpec,   \* r.cephClusterSpec (shared by all calls)
    rInfo,   \* r.clusterInfo (shared pointer to a ClusterInfo object)
    heap,    \* the ClusterInfo objects, named by the call that loaded them
    cfg,     \* the clusterConfig built by reconcileCreateObjectStore
    log,     \* the outside operations the current (or last) call invoked
    ret,     \* what the last call for each key returned
    healthy, \* the outside is in order: the cluster is ready and no operation fails
    provisioned, \* the sub-resources that exist for each object store
    released \* history: a reconcile call has removed the record's finalizer

vars == <<store, pc, obj, loc, rSpec, rInfo, heap, cfg, log, ret, healthy, provisioned, released>>

\* Resource keys; a key is identified with its namespace, and the CephCluster
\* of a namespace carries the namespace's name.
Keys == {"nsA", "nsB"}

Nil == "nil"

\* k8sutil phases; NoStatus is cephObjectStore.Status == nil.
NoStatus == "NoStatus"
Created == "Created"
ReadyStatus == "Ready"
ReconcileFailedStatus == "ReconcileFailed"

\* reconcile.Result values.
EmptyResult == "Result{}"
ImmediateRetryResult == "ImmediateRetry"
WaitForRequeueIfCephClusterNotReady == "WaitForRequeue"

\* (reconcile.Result, error) pairs; NoRet while nothing has returned yet.
NoRet == [res |-> "none", err |-> FALSE]
DoneRet == [res |-> EmptyResult, err |-> FALSE]
ErrRet == [res |-> EmptyResult, err |-> TRUE]
ResultRet(resp) == [res |-> resp, err |-> FALSE]

\* cephv1.ClusterSpec: the namespace it came from and External.Enable.
ZeroSpec == [ns |-> Nil, external |-> FALSE]
\* cephconfig.ClusterInfo, and the zero CephVersion.
ZeroVersion == [of |-> Nil]
ZeroInfo == [Name |-> Nil, CephVersion |-> ZeroVersion]
ZeroCfg == [clusterSpec |-> ZeroSpec, clusterInfoPtr |-> Nil, clusterInfo |-> ZeroInfo]
\* The record's status carries no message.
NoMessage == ""
ZeroObj == [phase |-> NoStatus, msg |-> NoMessage, dt |-> FALSE, fin |-> FALSE]
ZeroLoc == [cephClusterSpec |-> ZeroSpec, reconcileResponse |-> EmptyResult,
            currentCephVersion |-> ZeroVersion]

Entry(op, out) == [op |-> op, out |-> out]
Ops(k) == {log[k][i].op : i \in 1..Len(log[k])}
Has(k, op, out) == \E i \in 1..Len(log[k]) : log[k][i] = Entry(op, out)
Count(k, op) == Cardinality({i \in 1..Len(log[k]) : log[k][i].op = op})

----------------------------------------------------------------------------
(* The collaborators outside controller.go, at their interface.            *)

\* An outside operation succeeds or fails; none fails while the outside is in order.
Outcomes == IF healthy THEN {"ok"} ELSE {"ok", "err"}

\* A write of the record (client.Update / client.Status().Update) can fail,
\* and always fails once the record is gone.
WriteOutcomes(k) == IF store[k].exists THEN Outcomes ELSE {"err"}

\* opcontroller.IsReadyToReconcile: ready / not ready yet / cluster gone.
GateAnswers(k) ==
    { [out |-> "ready", ready |-> TRUE, exists |-> TRUE, resp |-> EmptyResult,
       spec |-> [ns |-> k, external |-> e]] : e \in BOOLEAN }
    \cup
    { [out |-> "notReady", ready |-> FALSE, exists |-> TRUE, resp |-> r,
       spec |-> ZeroSpec] : r \in {ImmediateRetryResult, WaitForRequeueIfCephClusterNotReady} }
    \cup
    { [out |-> "gone", ready |-> FALSE, exists |-> FALSE, resp |-> ImmediateRetryResult,
       spec |-> ZeroSpec] }

\* While the outside is in order the cluster is ready.
GateOutcomes(k) == IF healthy THEN {g \in GateAnswers(k) : g.ready} ELSE GateAnswers(k)

\* cephclient.LeastUptodateDaemonVersion for the cluster of that name.
DaemonVersion(name) == [of |-> name]

\* What each provisioning phase brings into being: the service endpoint, the
\* pools, the realm, the gateway workload.  A phase is idempotent: it creates
\* what is missing and leaves what exists; a failed phase creates nothing.
SubResource(op) ==
    CASE op = "reconcileService" -> "endpoint"
      [] op = "createPools" -> "pools"
      [] op = "reconcileRealm" -> "realm"
      [] op = "reconcileCreateObjectStore" -> "workload"
SubResources == {"endpoint", "pools", "realm", "workload"}
Provisioned(have, op, out) == IF out = "ok" THEN have \cup {SubResource(op)} ELSE have
\* deleteStore removes every sub-resource, or fails and removes none.
Deleted(have, out) == IF out = "ok" THEN {} ELSE have

----------------------------------------------------------------------------
(* The branch conditions of reconcile().                                   *)

\* Faulty variant: a NotFound from Get handed back as an error.
NotFoundRetError == ErrRet

\* A NotFound from Get: the record was deleted, the call is done.
NotFoundRet == DoneRet

\* Faulty variant: the status set to Created on every call.
NeedsInitAlways(o) == TRUE

NeedsInit(o) == o.phase = NoStatus

\* Faulty variant: the error of LoadClusterInfo ignored.
AfterLoadClusterInfoIgnoringError(out) == "daemonVersion"

AfterLoadClusterInfo(out) == IF out = "ok" THEN "daemonVersion" ELSE "return"

\* Faulty variants of the skip-cleanup condition: the deletion timestamp
\* forgotten, the cluster's presence forgotten, the branch never taken.
SkipCleanupAnyRecord(o, clusterExists) == ~clusterExists
SkipCleanupClusterPresent(o, clusterExists) == o.dt
SkipCleanupNever(o, clusterExists) == FALSE

SkipCleanup(o, clusterExists) == o.dt /\ ~clusterExists

\* Faulty variants: the deletion branch never taken, or skipped for a record
\* whose Phase is Ready.
IsDeleteNever(o) == FALSE
IsDeleteUnlessReady(o) == o.dt /\ o.phase # ReadyStatus

IsDelete(o) == o.dt

\* Faulty variants: the error of deleteStore ignored, or its test inverted.
AfterDeleteStoreIgnoringError(out) == "removeFinalizer"
AfterDeleteStoreInverted(out) == IF out = "ok" THEN "return" ELSE "removeFinalizer"

AfterDeleteStore(out) == IF out = "ok" THEN "removeFinalizer" ELSE "return"

\* Faulty variant: the error of AddFinalizerIfNotPresent ignored.
AfterAddFinalizerIgnoringError(out, o) == IF IsDelete(o) THEN "deleteStore" ELSE "validate"

\* After AddFinalizerIfNotPresent: an error ends the call, otherwise the
\* deletion timestamp decides between teardown and creation.
AfterAddFinalizer(out, o) ==
    IF out = "err" THEN "return" ELSE IF IsDelete(o) THEN "deleteStore" ELSE "validate"

\* Faulty variant: the error of validateStore ignored.
AfterValidateIgnoringError(out) == "service"

AfterValidate(out) == IF out = "ok" THEN "service" ELSE "return"

\* Faulty variants: the error of a phase ignored, or every phase taken as failed.
AfterPhaseIgnoringError(out, next) == next
AfterPhaseAlwaysFailed(out, next) == "setFailed"

AfterPhase(out, next) == IF out = "ok" THEN next ELSE "setFailed"

\* Faulty variant: the final status left at Created.
PhaseOnSuccessCreated == Created

PhaseOnSuccess == ReadyStatus

\* Faulty variant: a failed phase leaves the status at Created.
PhaseOnFailureCreated == Created

PhaseOnFailure == ReconcileFailedStatus

\* The errMessage each failing phase hands to setFailedStatus.
ErrMessage(op) ==
    CASE op = "reconcileService" -> "failed to reconcile service"
      [] op = "createPools" -> "failed to create object pools"
      [] op = "reconcileRealm" -> "failed to create object store realm"
      [] op = "reconcileCreateObjectStore" -> "failed to create object store deployments"

----------------------------------------------------------------------------
\* The state after newReconciler, with the records of `existing` freshly created.
InitWith(existing, h) ==
    /\ healthy = h
    /\ store = [k \in Keys |-> [exists |-> k \in existing, phase |-> NoStatus,
                                 msg |-> NoMessage, dt |-> FALSE, fin |-> FALSE]]
    /\ provisioned = [k \in Keys |-> {}]
    /\ released = [k \in Keys |-> FALSE]
    /\ pc = [k \in Keys |-> "idle"]
    /\ obj = [k \in Keys |-> ZeroObj]
    /\ loc = [k \in Keys |-> ZeroLoc]
    /\ rSpec = ZeroSpec
    /\ rInfo = Nil
    /\ heap = [k \in Keys |-> ZeroInfo]
    /\ cfg = [k \in Keys |-> ZeroCfg]
    /\ log = [k \in Keys |-> <<>>]
    /\ ret = [k \in Keys |-> NoRet]

\* One record exists; a call for the other key finds nothing.
Init == InitWith({"nsA"}, FALSE)

\* Two records in two namespaces, and an outside that is in order.
InitConc == InitWith(Keys, TRUE)

\* The call returns r: the key is free for the dispatcher's next call.
Return(k, r) ==
    /\ UNCHANGED healthy
    /\ pc' = [pc EXCEPT ![k] = "idle"]
    /\ ret' = [ret EXCEPT ![k] = r]

Goto(k, p) ==
    /\ UNCHANGED healthy
    /\ pc' = [pc EXCEPT ![k] = p]
    /\ UNCHANGED ret

Logged(k, op, out) == log' = [log EXCEPT ![k] = Append(@, Entry(op, out))]

\* Reconcile -> reconcile: r.client.Get of the record.
Get(k) ==
    /\ pc[k] = "idle"
    /\ loc' = [loc EXCEPT ![k] = ZeroLoc]
    /\ cfg' = [cfg EXCEPT ![k] = ZeroCfg]
    /\ UNCHANGED <<store, rSpec, rInfo, heap, provisioned, released>>
    /\ \/ /\ ~store[k].exists
          /\ log' = [log EXCEPT ![k] = <<Entry("Get", "notFound")>>]
          /\ obj' = [obj EXCEPT ![k] = ZeroObj]
          /\ Return(k, NotFoundRet)
       \/ /\ ~healthy
          /\ log' = [log EXCEPT ![k] = <<Entry("Get", "err")>>]
          /\ obj' = [obj EXCEPT ![k] = ZeroObj]
          /\ Return(k, ErrRet)
       \/ /\ store[k].exists
          /\ log' = [log EXCEPT ![k] = <<Entry("Get", "ok")>>]
          /\ obj' = [obj EXCEPT ![k] =
                        [phase |-> store[k].phase, msg |-> store[k].msg,
                         dt |-> store[k].dt, fin |-> store[k].fin]]
          /\ Goto(k, IF NeedsInit(obj'[k]) THEN "initStatus" ELSE "gate")

\* Status == nil: set Phase Created and persist it.
InitStatus(k) ==
    /\ pc[k] = "initStatus"
    /\ obj' = [obj EXCEPT ![k].phase = Created]
    /\ UNCHANGED <<loc, cfg, rSpec, rInfo, heap, provisioned, released>>
    /\ \E out \in WriteOutcomes(k) :
          /\ Logged(k, "UpdateStatus:Created", out)
          /\ IF out = "ok"
                THEN /\ store' = [store EXCEPT ![k].phase = Created, ![k].msg = obj[k].msg]
                     /\ Goto(k, "gate")
                ELSE /\ UNCHANGED store
                     /\ Return(k, ErrRet)

\* IsReadyToReconcile and the not-ready branch; on ready, r.cephClusterSpec is set.
Gate(k) ==
    /\ pc[k] = "gate"
    /\ UNCHANGED <<store, obj, cfg, rInfo, heap, provisioned, released>>
    /\ \E g \in GateOutcomes(k) :
          /\ Logged(k, "IsReadyToReconcile", g.out)
          /\ loc' = [loc EXCEPT ![k].cephClusterSpec = g.spec, ![k].reconcileResponse = g.resp]
          /\ IF ~g.ready
                THEN /\ UNCHANGED rSpec
                     /\ IF SkipCleanup(obj[k], g.exists)
                           THEN Goto(k, "removeFinalizerGone")
                           ELSE Return(k, ResultRet(g.resp))
                ELSE /\ rSpec' = g.spec
                     /\ Goto(k, "loadClusterInfo")

\* opcontroller.RemoveFinalizer: drops the finalizer from the copy and writes
\* the record; nothing to do when the copy has no finalizer.
RemoveFinalizerStep(k, op) ==
    /\ UNCHANGED <<loc, cfg, rSpec, rInfo, heap, provisioned>>
    /\ IF ~obj[k].fin
          THEN /\ Logged(k, op, "noop")
               /\ UNCHANGED <<store, obj, released>>
               /\ Return(k, DoneRet)
          ELSE /\ obj' = [obj EXCEPT ![k].fin = FALSE]
               /\ \E out \in WriteOutcomes(k) :
                     /\ Logged(k, op, out)
                     /\ released' = [released EXCEPT ![k] = @ \/ out = "ok"]
                     /\ IF out = "ok"
                           THEN /\ store' = [store EXCEPT ![k].fin = FALSE]
                                /\ Return(k, DoneRet)
                           ELSE /\ UNCHANGED store
                                /\ Return(k, ErrRet)

\* The CephCluster is gone and the record is being deleted: only the finalizer goes.
RemoveFinalizerGone(k) ==
    /\ pc[k] = "removeFinalizerGone"
    /\ RemoveFinalizerStep(k, "RemoveFinalizer")

\* mon.LoadClusterInfo; r.clusterInfo points at the object it returned.
LoadClusterInfo(k) ==
    /\ pc[k] = "loadClusterInfo"
    /\ UNCHANGED <<store, obj, loc, cfg, rSpec, provisioned, released>>
    /\ \E out \in Outcomes :
          /\ Logged(k, "LoadClusterInfo", out)
          /\ IF out = "ok"
                THEN /\ heap' = [heap EXCEPT ![k] = [Name |-> k, CephVersion |-> ZeroVersion]]
                     /\ rInfo' = k
                ELSE UNCHANGED <<heap, rInfo>>
          /\ IF AfterLoadClusterInfo(out) = "return"
                THEN Return(k, ErrRet)
                ELSE Goto(k, AfterLoadClusterInfo(out))

\* LeastUptodateDaemonVersion(r.clusterInfo.Name): an error is only logged.
DaemonVersionStep(k) ==
    /\ pc[k] = "daemonVersion"
    /\ UNCHANGED <<store, obj, cfg, rSpec, rInfo, heap, provisioned, released>>
    /\ \E out \in Outcomes :
          /\ Logged(k, "LeastUptodateDaemonVersion", out)
          /\ loc' = [loc EXCEPT ![k].currentCephVersion =
                        IF out = "ok" THEN DaemonVersion(heap[rInfo].Name) ELSE ZeroVersion]
          /\ Goto(k, "setVersion")

\* r.clusterInfo.CephVersion = currentCephVersion
SetVersion(k) ==
    /\ pc[k] = "setVersion"
    /\ heap' = [heap EXCEPT ![rInfo].CephVersion = loc[k].currentCephVersion]
    /\ UNCHANGED <<store, obj, loc, cfg, rSpec, rInfo, log, provisioned, released>>
    /\ Goto(k, "addFinalizer")

\* opcontroller.AddFinalizerIfNotPresent, then the branch on the deletion timestamp.
AddFinalizer(k) ==
    /\ pc[k] = "addFinalizer"
    /\ UNCHANGED <<loc, cfg, rSpec, rInfo, heap, provisioned, released>>
    /\ IF obj[k].fin
          THEN /\ Logged(k, "AddFinalizerIfNotPresent", "noop")
               /\ UNCHANGED <<store, obj>>
               /\ Goto(k, AfterAddFinalizer("noop", obj[k]))
          ELSE /\ obj' = [obj EXCEPT ![k].fin = TRUE]
               /\ \E out \in WriteOutcomes(k) :
                     /\ Logged(k, "AddFinalizerIfNotPresent", out)
                     /\ store' = IF out = "ok" THEN [store EXCEPT ![k].fin = TRUE] ELSE store
                     /\ IF AfterAddFinalizer(out, obj[k]) = "return"
                           THEN Return(k, ErrRet)
                           ELSE Goto(k, AfterAddFinalizer(out, obj[k]))

\* cfg.deleteStore()
DeleteStore(k) ==
    /\ pc[k] = "deleteStore"
    /\ UNCHANGED <<store, obj, loc, cfg, rSpec, rInfo, heap, released>>
    /\ \E out \in Outcomes :
          /\ Logged(k, "deleteStore", out)
          /\ provisioned' = [provisioned EXCEPT ![k] = Deleted(@, out)]
          /\ IF AfterDeleteStore(out) = "return"
                THEN Return(k, ErrRet)
                ELSE Goto(k, AfterDeleteStore(out))

\* RemoveFinalizer after the store was deleted.
RemoveFinalizer(k) ==
    /\ pc[k] = "removeFinalizer"
    /\ RemoveFinalizerStep(k, "RemoveFinalizer")

\* validateStore: a failure returns the error without touching the status.
Validate(k) ==
    /\ pc[k] = "validate"
    /\ UNCHANGED <<store, obj, loc, cfg, rSpec, rInfo, heap, provisioned, released>>
    /\ \E out \in Outcomes :
          /\ Logged(k, "validateStore", out)
          /\ IF AfterValidate(out) = "return"
                THEN Return(k, ErrRet)
                ELSE Goto(k, AfterValidate(out))

\* A provisioning phase that touches none of the reconciler's fields.
PhaseStep(k, at, op, next) ==
    /\ pc[k] = at
    /\ UNCHANGED <<store, obj, loc, cfg, rSpec, rInfo, heap, released>>
    /\ \E out \in Outcomes :
          /\ Logged(k, op, out)
          /\ provisioned' = [provisioned EXCEPT ![k] = Provisioned(@, op, out)]
          /\ Goto(k, AfterPhase(out, next))

ReconcileService(k) == PhaseStep(k, "service", "reconcileService", "pools")

CreatePools(k) == PhaseStep(k, "pools", "createPools", "realm")

ReconcileRealm(k) == PhaseStep(k, "realm", "reconcileRealm", "workload")

\* reconcileCreateObjectStore: builds the clusterConfig from r.cephClusterSpec and
\* r.clusterInfo; in external mode the version check comes first.
ReconcileCreateObjectStore(k) ==
    /\ pc[k] = "workload"
    /\ UNCHANGED <<store, obj, loc, rSpec, rInfo, heap, released>>
    /\ \E versionsOut \in Outcomes, storeOut \in Outcomes :
          LET versionsOk == versionsOut = "ok"
              storeOk == storeOut = "ok"
              out == IF (rSpec.external => versionsOk) /\ storeOk THEN "ok" ELSE "err" IN
          /\ Logged(k, "reconcileCreateObjectStore", out)
          /\ provisioned' = [provisioned EXCEPT ![k] =
                                Provisioned(@, "reconcileCreateObjectStore", out)]
          /\ cfg' = [cfg EXCEPT ![k] =
                        IF rSpec.external /\ ~versionsOk
                           THEN ZeroCfg
                           ELSE [clusterSpec |-> rSpec, clusterInfoPtr |-> rInfo,
                                 clusterInfo |-> heap[rInfo]]]
          /\ Goto(k, AfterPhase(out, "setReady"))

\* setFailedStatus: Phase ReconcileFailed; a failed status write is only logged.
SetFailedStatus(k) ==
    /\ pc[k] = "setFailed"
    /\ obj' = [obj EXCEPT ![k].phase = PhaseOnFailure]
    /\ UNCHANGED <<loc, cfg, rSpec, rInfo, heap, provisioned, released>>
    /\ \E out \in WriteOutcomes(k) :
          /\ Logged(k, "UpdateStatus:ReconcileFailed", out)
          /\ store' = IF out = "ok"
                          THEN [store EXCEPT ![k].phase = PhaseOnFailure, ![k].msg = obj[k].msg]
                          ELSE store
          /\ Return(k, ErrRet)

\* Phase Ready, persisted; the call is done.
SetReadyStatus(k) ==
    /\ pc[k] = "setReady"
    /\ obj' = [obj EXCEPT ![k].phase = PhaseOnSuccess]
    /\ UNCHANGED <<loc, cfg, rSpec, rInfo, heap, provisioned, released>>
    /\ \E out \in WriteOutcomes(k) :
          /\ Logged(k, "UpdateStatus:Ready", out)
          /\ IF out = "ok"
                THEN /\ store' = [store EXCEPT ![k].phase = PhaseOnSuccess, ![k].msg = obj[k].msg]
                     /\ Return(k, DoneRet)
                ELSE /\ UNCHANGED store
                     /\ Return(k, ErrRet)

----------------------------------------------------------------------------
(* The environment: a user deletes the record; the API server collects a    *)
(* record that is being deleted and carries no finalizer.                   *)

MarkDeleted(k) ==
    /\ store[k].exists
    /\ ~store[k].dt
    /\ store' = [store EXCEPT ![k].dt = TRUE]
    /\ UNCHANGED <<pc, obj, loc, rSpec, rInfo, heap, cfg, log, ret, healthy, provisioned, released>>

Collect(k) ==
    /\ store[k].exists
    /\ store[k].dt
    /\ ~store[k].fin
    /\ store' = [store EXCEPT ![k].exists = FALSE]
    /\ UNCHANGED <<pc, obj, loc, rSpec, rInfo, heap, cfg, log, ret, healthy, provisioned, released>>

Next ==
    \E k \in Keys :
        \/ Get(k)
        \/ InitStatus(k)
        \/ Gate(k)
        \/ RemoveFinalizerGone(k)
        \/ LoadClusterInfo(k)
        \/ DaemonVersionStep(k)
        \/ SetVersion(k)
        \/ AddFinalizer(k)
        \/ DeleteStore(k)
        \/ RemoveFinalizer(k)
        \/ Validate(k)
        \/ ReconcileService(k)
        \/ CreatePools(k)
        \/ ReconcileRealm(k)
        \/ ReconcileCreateObjectStore(k)
        \/ SetFailedStatus(k)
        \/ SetReadyStatus(k)
        \/ MarkDeleted(k)
        \/ Collect(k)

Spec == Init /\ [][Next]_vars

\* Calls for two keys interleaving on the one reconciler, nothing failing.
NextConc ==
    \E k \in Keys :
        \/ Get(k)
        \/ InitStatus(k)
        \/ Gate(k)
        \/ LoadClusterInfo(k)
        \/ DaemonVersionStep(k)
        \/ SetVersion(k)
        \/ AddFinalizer(k)
        \/ DeleteStore(k)
        \/ RemoveFinalizer(k)
        \/ Validate(k)
        \/ ReconcileService(k)
        \/ CreatePools(k)
        \/ ReconcileRealm(k)
        \/ ReconcileCreateObjectStore(k)
        \/ SetReadyStatus(k)
        \/ MarkDeleted(k)
        \/ Collect(k)

SpecConc == InitConc /\ [][NextConc]_vars

----------------------------------------------------------------------------
(* The dispatcher and the outside settling down.  The controller queues a   *)
(* key again when the call returned an error or a requeue result, and when  *)
(* the watch reports the record (its creation, its deletion timestamp); a   *)
(* call that runs makes progress, every operation it invokes returns.       *)

\* From now on the cluster is ready and no operation fails.
Stabilize ==
    /\ ~healthy
    /\ healthy' = TRUE
    /\ UNCHANGED <<store, pc, obj, loc, rSpec, rInfo, heap, cfg, log, ret, provisioned, released>>

\* The key is on the work queue.
Pending(k) ==
    \/ ret[k] = NoRet
    \/ ret[k].err
    \/ ret[k].res # EmptyResult
    \/ store[k].exists /\ store[k].dt # obj[k].dt

\* A step of the call in flight for k.
CallStep(k) ==
    \/ InitStatus(k)
    \/ Gate(k)
    \/ RemoveFinalizerGone(k)
    \/ LoadClusterInfo(k)
    \/ DaemonVersionStep(k)
    \/ SetVersion(k)
    \/ AddFinalizer(k)
    \/ DeleteStore(k)
    \/ RemoveFinalizer(k)
    \/ Validate(k)
    \/ ReconcileService(k)
    \/ CreatePools(k)
    \/ ReconcileRealm(k)
    \/ ReconcileCreateObjectStore(k)
    \/ SetFailedStatus(k)
    \/ SetReadyStatus(k)

NextLive == Next \/ Stabilize

Fairness ==
    \A k \in Keys :
        /\ WF_vars(Pending(k) /\ Get(k))
        /\ WF_vars(CallStep(k))

SpecLive == Init /\ [][NextLive]_vars /\ Fairness

----------------------------------------------------------------------------
(* Two runs side by side.  The operator has restarted; the records of the   *)
(* two keys were provisioned before and are alike (deletion timestamp,      *)
(* finalizer, sub-resources) except for the Phase they carry.  The call for *)
(* nsA runs first, then the call for nsB runs and the outside gives it the  *)
(* answers it gave to nsA's call.                                          *)

SetPhases == {Created, ReadyStatus, ReconcileFailedStatus}

\* Deletion timestamp and finalizer of a record that has been provisioned.
TwinShapes == {[dt |-> FALSE, fin |-> TRUE], [dt |-> TRUE, fin |-> TRUE],
               [dt |-> TRUE, fin |-> FALSE]}

InitTwin ==
    /\ healthy = FALSE
    /\ \E pA \in SetPhases, pB \in SetPhases, sh \in TwinShapes :
          /\ pA # pB
          /\ store = [k \in Keys |-> [exists |-> TRUE, phase |-> IF k = "nsA" THEN pA ELSE pB,
                                       msg |-> NoMessage, dt |-> sh.dt, fin |-> sh.fin]]
          /\ released = [k \in Keys |-> sh.dt /\ ~sh.fin]
    /\ provisioned = [k \in Keys |-> SubResources]
    /\ pc = [k \in Keys |-> "idle"]
    /\ obj = [k \in Keys |-> ZeroObj]
    /\ loc = [k \in Keys |-> ZeroLoc]
    /\ rSpec = ZeroSpec
    /\ rInfo = Nil
    /\ heap = [k \in Keys |-> ZeroInfo]
    /\ cfg = [k \in Keys |-> ZeroCfg]
    /\ log = [k \in Keys |-> <<>>]
    /\ ret = [k \in Keys |-> NoRet]

\* Each key gets one call; the call for nsB starts when nsA's has returned.
TwinTurn(k) ==
    /\ ret[k] = NoRet
    /\ k = "nsB" => (pc["nsA"] = "idle" /\ ret["nsA"] # NoRet)

\* The outside answered nsB's call as it answered nsA's: the same operation at
\* the same place got the same outcome, and the readiness gate gave the same
\* requeue result and the same kind of cluster.
SameResponses ==
    /\ \A i \in 1..Len(log["nsB"]) :
          (i <= Len(log["nsA"]) /\ log["nsA"][i].op = log["nsB"][i].op) =>
              log["nsA"][i].out = log["nsB"][i].out
    /\ "IsReadyToReconcile" \in Ops("nsB") =>
          /\ loc["nsA"].reconcileResponse = loc["nsB"].reconcileResponse
          /\ loc["nsA"].cephClusterSpec.external = loc["nsB"].cephClusterSpec.external

\* The steps of a call on a record whose status is set.
NextTwin ==
    \E k \in Keys :
        \/ TwinTurn(k) /\ Get(k) /\ SameResponses'
        \/ TwinTurn(k) /\ Gate(k) /\ SameResponses'
        \/ TwinTurn(k) /\ RemoveFinalizerGone(k) /\ SameResponses'
        \/ TwinTurn(k) /\ LoadClusterInfo(k) /\ SameResponses'
        \/ TwinTurn(k) /\ DaemonVersionStep(k) /\ SameResponses'
        \/ TwinTurn(k) /\ SetVersion(k) /\ SameResponses'
        \/ TwinTurn(k) /\ AddFinalizer(k) /\ SameResponses'
        \/ TwinTurn(k) /\ DeleteStore(k) /\ SameResponses'
        \/ TwinTurn(k) /\ RemoveFinalizer(k) /\ SameResponses'
        \/ TwinTurn(k) /\ Validate(k) /\ SameResponses'
        \/ TwinTurn(k) /\ ReconcileService(k) /\ SameResponses'
        \/ TwinTurn(k) /\ CreatePools(k) /\ SameResponses'
        \/ TwinTurn(k) /\ ReconcileRealm(k) /\ SameResponses'
        \/ TwinTurn(k) /\ ReconcileCreateObjectStore(k) /\ SameResponses'
        \/ TwinTurn(k) /\ SetFailedStatus(k) /\ SameResponses'
        \/ TwinTurn(k) /\ SetReadyStatus(k) /\ SameResponses'

SpecTwin == InitTwin /\ [][NextTwin]_vars

----------------------------------------------------------------------------
(* What a call's log says.                                                 *)

PhaseOps == <<"validateStore", "reconcileService", "createPools", "reconcileRealm",
              "reconcileCreateObjectStore">>
PhaseOpSet == {PhaseOps[i] : i \in 1..Len(PhaseOps)}
ProvisioningOps == PhaseOpSet \ {"validateStore"}
IsPhaseEntry(e) == e.op \in PhaseOpSet
Phases(k) == SelectSeq(log[k], IsPhaseEntry)
Returned(k) == pc[k] = "idle" /\ ret[k] # NoRet
\* op was invoked after an entry (op0, out0)
After(k, op0, out0, op) ==
    \E i, j \in 1..Len(log[k]) : i < j /\ log[k][i] = Entry(op0, out0) /\ log[k][j].op = op
\* No step of the call failed; a failed daemon-version lookup does not count,
\* reconcile only logs it.
NoStepFailed(k) ==
    \A i \in 1..Len(log[k]) :
        log[k][i].out = "err" => log[k][i].op = "LeastUptodateDaemonVersion"
\* The record carried the finalizer when the call fetched it.
FinalizerAtGet(k) ==
    /\ ~Has(k, "AddFinalizerIfNotPresent", "ok")
    /\ ~Has(k, "AddFinalizerIfNotPresent", "err")
    /\ obj[k].fin \/ Has(k, "RemoveFinalizer", "ok") \/ Has(k, "RemoveFinalizer", "err")

----------------------------------------------------------------------------
\* C1 (as claimed): in every reachable state of the stored record, Phase
\* Created or Ready implies that the finalizer is present.
C1_FinalizerWheneverCreatedOrReady ==
    \A k \in Keys :
        (store[k].exists /\ store[k].phase \in {Created, ReadyStatus}) => store[k].fin

\* C1 (amended): in every reachable state, a stored record with Phase Ready and
\* no deletion timestamp carries the finalizer.
C1_FinalizerWhenReadyAndNotDeleted ==
    \A k \in Keys :
        (store[k].exists /\ store[k].phase = ReadyStatus /\ ~store[k].dt) => store[k].fin

C1_Witness ==
    /\ Returned("nsA") /\ ret["nsA"] = DoneRet
    /\ store["nsA"].exists /\ store["nsA"].phase = ReadyStatus
    /\ ~store["nsA"].dt /\ store["nsA"].fin

\* C2 (as claimed): a call removes the finalizer from the record only after
\* deleteStore returned success in that call.
C2_RemoveOnlyAfterTeardown ==
    \A k \in Keys :
        Has(k, "RemoveFinalizer", "ok") => After(k, "deleteStore", "ok", "RemoveFinalizer")

\* C2 (amended): RemoveFinalizer is invoked only after deleteStore returned
\* success in the same call, or in a call on a record with a deletion timestamp
\* whose readiness gate reported the cluster gone; on the latter path
\* deleteStore is not invoked at all.
C2_RemoveAfterTeardownOrClusterGone ==
    \A k \in Keys :
        "RemoveFinalizer" \in Ops(k) =>
            \/ After(k, "deleteStore", "ok", "RemoveFinalizer")
            \/ /\ After(k, "IsReadyToReconcile", "gone", "RemoveFinalizer")
               /\ obj[k].dt
               /\ "deleteStore" \notin Ops(k)

C2_Witness ==
    /\ Returned("nsA")
    /\ After("nsA", "deleteStore", "ok", "RemoveFinalizer")
    /\ Has("nsA", "RemoveFinalizer", "ok")
    /\ ~store["nsA"].fin

\* C3: when the readiness gate reports the cluster present but not ready, the
\* call invokes no phase and no teardown, neither adds nor removes the
\* finalizer, and returns the gate's result with a nil error, with or without
\* a deletion timestamp on the record.
C3_NotReadyOnlyRequeues ==
    \A k \in Keys :
        Has(k, "IsReadyToReconcile", "notReady") =>
            /\ Ops(k) \cap (PhaseOpSet \cup {"deleteStore", "AddFinalizerIfNotPresent",
                                             "RemoveFinalizer", "LoadClusterInfo"}) = {}
            /\ Returned(k)
            /\ ret[k] = [res |-> loc[k].reconcileResponse, err |-> FALSE]
            /\ ret[k].res \in {ImmediateRetryResult, WaitForRequeueIfCephClusterNotReady}
            /\ store[k].exists => store[k].fin = obj[k].fin

C3_Witness ==
    /\ Has("nsA", "IsReadyToReconcile", "notReady")
    /\ obj["nsA"].dt /\ obj["nsA"].fin
    /\ Returned("nsA")
    /\ ret["nsA"] = ResultRet(WaitForRequeueIfCephClusterNotReady)

\* C4 (as claimed): for a record with a deletion timestamp while the cluster
\* does not exist, the call removes the finalizer and returns done, without
\* deleteStore, without any provisioning and without loading cluster info.
C4_ClusterGoneRemovesAndIsDone ==
    \A k \in Keys :
        (Returned(k) /\ Has(k, "IsReadyToReconcile", "gone") /\ obj[k].dt) =>
            /\ Ops(k) \cap (ProvisioningOps \cup {"deleteStore", "LoadClusterInfo"}) = {}
            /\ "RemoveFinalizer" \in Ops(k)
            /\ store[k].exists => ~store[k].fin
            /\ ret[k] = DoneRet

\* C4 (amended): for such a record the call invokes RemoveFinalizer and no
\* deleteStore, no phase, no LoadClusterInfo and no AddFinalizerIfNotPresent;
\* if the finalizer write succeeds (or there was none to remove) the finalizer
\* is absent and the call returns done; if the write fails the call returns
\* an error and the finalizer stays.
C4_ClusterGoneOnlyRemovesFinalizer ==
    \A k \in Keys :
        (Has(k, "IsReadyToReconcile", "gone") /\ obj[k].dt) =>
            /\ Ops(k) \cap (PhaseOpSet \cup {"deleteStore", "LoadClusterInfo",
                                             "AddFinalizerIfNotPresent"}) = {}
            /\ Returned(k) =>
                  /\ "RemoveFinalizer" \in Ops(k)
                  /\ ~Has(k, "RemoveFinalizer", "err") =>
                        (ret[k] = DoneRet /\ (store[k].exists => ~store[k].fin))
                  /\ Has(k, "RemoveFinalizer", "err") =>
                        (ret[k] = ErrRet /\ store[k].exists /\ store[k].fin)

C4_Witness ==
    /\ Returned("nsA") /\ ret["nsA"] = DoneRet
    /\ Has("nsA", "IsReadyToReconcile", "gone")
    /\ obj["nsA"].dt
    /\ Has("nsA", "RemoveFinalizer", "ok")
    /\ store["nsA"].exists /\ ~store["nsA"].fin

\* C5: on the ready path of a record with a deletion timestamp, when
\* deleteStore returns an error the call returns an error, RemoveFinalizer is
\* not invoked and the record still carries the finalizer.
C5_FailedTeardownKeepsFinalizer ==
    \A k \in Keys :
        Has(k, "deleteStore", "err") =>
            /\ Returned(k)
            /\ ret[k].err
            /\ "RemoveFinalizer" \notin Ops(k)
            /\ store[k].exists /\ store[k].fin

C5_Witness ==
    /\ Has("nsA", "deleteStore", "err")
    /\ Has("nsA", "IsReadyToReconcile", "ready")
    /\ obj["nsA"].dt
    /\ ret["nsA"] = ErrRet

\* The operations of a call on the ready deletion path in which nothing fails.
DeletionOps == <<"Get", "IsReadyToReconcile", "LoadClusterInfo", "LeastUptodateDaemonVersion",
                 "AddFinalizerIfNotPresent", "deleteStore", "RemoveFinalizer">>
LogOps(k) == [i \in 1..Len(log[k]) |-> log[k][i].op]
\* A call on a provisioned record (finalizer present) with a deletion
\* timestamp, the cluster ready.
ReadyDeletionCall(k) ==
    /\ Has(k, "IsReadyToReconcile", "ready")
    /\ obj[k].dt
    /\ FinalizerAtGet(k)
    /\ obj[k].phase # NoStatus /\ "UpdateStatus:Created" \notin Ops(k)

\* C6 (as claimed): for a provisioned record (Phase Ready, finalizer present)
\* that has received a deletion timestamp, the cluster ready, the call
\* invokes deleteStore exactly once, then removes the finalizer, returns done,
\* and invokes no creation phase.
C6_DeletionTearsDownOnceAndIsDone ==
    \A k \in Keys :
        (Returned(k) /\ ReadyDeletionCall(k) /\ obj[k].phase = ReadyStatus) =>
            /\ Count(k, "deleteStore") = 1
            /\ After(k, "deleteStore", "ok", "RemoveFinalizer")
            /\ ret[k] = DoneRet
            /\ Ops(k) \cap PhaseOpSet = {}

\* C6 (amended): such a call invokes no creation phase and deleteStore at most
\* once; if none of its steps fails (LoadClusterInfo, deleteStore, the
\* finalizer write) it invokes deleteStore exactly once, then RemoveFinalizer,
\* leaves the record without finalizer and returns done.
C6_DeletionTearsDownOnceIfNothingFails ==
    \A k \in Keys :
        ReadyDeletionCall(k) =>
            /\ Ops(k) \cap PhaseOpSet = {}
            /\ Count(k, "deleteStore") <= 1
            /\ (Returned(k) /\ NoStepFailed(k)) =>
                  /\ LogOps(k) = DeletionOps
                  /\ Has(k, "deleteStore", "ok")
                  /\ Has(k, "RemoveFinalizer", "ok")
                  /\ store[k].exists => ~store[k].fin
                  /\ ret[k] = DoneRet

C6_Witness ==
    /\ Returned("nsA") /\ ReadyDeletionCall("nsA") /\ NoStepFailed("nsA")
    /\ store["nsA"].phase = ReadyStatus
    /\ store["nsA"].exists /\ ~store["nsA"].fin
    /\ ret["nsA"] = DoneRet

\* C7: the creation phases of a call run in the order validateStore,
\* reconcileService, createPools, reconcileRealm, reconcileCreateObjectStore,
\* each at most once and only after every earlier one succeeded in the call;
\* nothing follows the first failing phase, and a record fetched with a
\* deletion timestamp runs none.
C7_PhasesInOrder ==
    \A k \in Keys :
        LET ph == Phases(k) IN
        /\ Len(ph) <= Len(PhaseOps)
        /\ \A i \in 1..Len(ph) :
              /\ ph[i].op = PhaseOps[i]
              /\ i < Len(ph) => ph[i].out = "ok"
        /\ (Len(ph) > 0 /\ ph[Len(ph)].out = "err") => pc[k] \in {"idle", "setFailed"}
        /\ obj[k].dt => Len(ph) = 0

C7_Witness ==
    /\ Returned("nsA")
    /\ Len(Phases("nsA")) = 4
    /\ Has("nsA", "reconcileRealm", "err")

\* In a call that has returned, one of the five creation phases failed and no
\* status write failed.
PhaseFailed(k) ==
    /\ Returned(k)
    /\ \E i \in 1..Len(log[k]) : log[k][i].op \in PhaseOpSet /\ log[k][i].out = "err"
    /\ ~Has(k, "UpdateStatus:ReconcileFailed", "err")

\* C8 (as claimed): a failure at any of the five creation phases (validation
\* included) ends the call with stored Phase ReconcileFailed, a non-nil error
\* and the finalizer still present.
C8_PhaseFailureRecordsReconcileFailed ==
    \A k \in Keys :
        PhaseFailed(k) =>
            /\ ret[k].err
            /\ store[k].exists
            /\ store[k].phase = ReconcileFailedStatus
            /\ store[k].fin

\* Every step of the creation path but the final status write succeeded:
\* the cluster was ready, the record had no deletion timestamp, and each of
\* the five phases returned success.
AllPhasesSucceeded(k) ==
    /\ Returned(k)
    /\ Has(k, "IsReadyToReconcile", "ready")
    /\ ~obj[k].dt
    /\ \A i \in 1..Len(PhaseOps) : Has(k, PhaseOps[i], "ok")

\* What C9 promises of a call: Created was persisted before any phase when
\* the record had no status, the stored Phase is Ready, the finalizer is
\* present and the call returned done.
CreationOutcome(k) ==
    /\ "UpdateStatus:Created" \in Ops(k) =>
          /\ log[k][2] = Entry("UpdateStatus:Created", "ok")
          /\ \A i \in 1..Len(log[k]) : log[k][i].op \in PhaseOpSet => i > 2
    /\ Len(Phases(k)) = Len(PhaseOps)
    /\ log[k][Len(log[k])] = Entry("UpdateStatus:Ready", "ok")
    /\ store[k].exists /\ store[k].phase = ReadyStatus /\ store[k].fin
    /\ ret[k] = DoneRet

\* C9 (as claimed): when the cluster is ready and every phase succeeds, the
\* call on a record without deletion timestamp persists Created first (if the
\* record had no status), runs all phases and ends with stored Phase Ready,
\* the finalizer present and a done result.
C9_AllPhasesOkEndsReady ==
    \A k \in Keys : AllPhasesSucceeded(k) => CreationOutcome(k)

\* C9 (amended): the same, when moreover no other step of the call fails (the
\* status writes, LoadClusterInfo, the finalizer write); and every call that
\* returns done after writing Phase Ready leaves the finalizer on the record.
C9_NothingFailsEndsReady ==
    \A k \in Keys :
        /\ (Returned(k) /\ Has(k, "IsReadyToReconcile", "ready") /\ ~obj[k].dt
              /\ NoStepFailed(k)) => CreationOutcome(k)
        /\ (Returned(k) /\ ret[k] = DoneRet /\ "UpdateStatus:Ready" \in Ops(k)) =>
              (store[k].exists /\ store[k].fin /\ store[k].phase = ReadyStatus)

C9_Witness ==
    /\ Returned("nsA") /\ NoStepFailed("nsA")
    /\ Has("nsA", "UpdateStatus:Created", "ok")
    /\ Has("nsA", "AddFinalizerIfNotPresent", "ok")
    /\ Has("nsA", "UpdateStatus:Ready", "ok")
    /\ store["nsA"].phase = ReadyStatus /\ store["nsA"].fin
    /\ ret["nsA"] = DoneRet

\* C10 (as claimed): the cluster spec and cluster info a call hands to its
\* workload phase are the ones the same call got from its own readiness gate,
\* LoadClusterInfo and version lookup, also when calls for other keys
\* interleave with it.
C10_WorkloadUsesOwnClusterFacts ==
    \A k \in Keys :
        cfg[k] # ZeroCfg =>
            /\ cfg[k].clusterSpec = loc[k].cephClusterSpec
            /\ cfg[k].clusterInfoPtr = k
            /\ cfg[k].clusterInfo = [Name |-> k, CephVersion |-> loc[k].currentCephVersion]

----------------------------------------------------------------------------
\* The provisioning phase that failed and sent the call to setFailedStatus.
FailedPhaseOps(k) ==
    {log[k][i].op : i \in {j \in 1..Len(log[k]) :
                              log[k][j].op \in ProvisioningOps /\ log[k][j].out = "err"}}

\* C11 (as claimed): the stored status message reflects the most recent
\* failure: after a call that failed in a provisioning phase (and persisted the
\* failed status) the stored message is that phase's error message, and after
\* a call that persisted Phase Ready the stored message is empty.
C11_MessageReflectsLastFailure ==
    \A k \in Keys :
        (Returned(k) /\ store[k].exists) =>
            /\ Has(k, "UpdateStatus:ReconcileFailed", "ok") =>
                  \E op \in FailedPhaseOps(k) : store[k].msg = ErrMessage(op)
            /\ Has(k, "UpdateStatus:Ready", "ok") => store[k].msg = NoMessage

----------------------------------------------------------------------------
\* C12: reconcile is idempotent on a provisioned record.  The call that runs
\* the four provisioning phases and persists Phase Ready leaves the record
\* Ready with its finalizer and all four sub-resources; and from then on, as
\* long as the record has no deletion timestamp and no provisioning phase of
\* the call in flight has failed, every step of a further call leaves the
\* stored Phase Ready, the finalizer present and the provisioned sub-resources
\* the same.
C12_SecondCallIsIdempotent ==
    [][\A k \in Keys :
          /\ (pc[k] = "setReady" /\ Has(k, "UpdateStatus:Ready", "ok")') =>
                /\ store'[k].phase = ReadyStatus /\ store'[k].fin
                /\ provisioned'[k] = SubResources
          /\ (/\ store[k].exists /\ store[k].phase = ReadyStatus /\ store[k].fin
              /\ provisioned[k] = SubResources
              /\ store'[k].exists /\ ~store'[k].dt
              /\ FailedPhaseOps(k)' = {}) =>
                /\ store'[k].phase = ReadyStatus /\ store'[k].fin
                /\ provisioned'[k] = SubResources]_vars

\* A second call on a Ready record has run all its phases again and is about
\* to persist Phase Ready.
C12_Witness ==
    /\ pc["nsA"] = "setReady"
    /\ store["nsA"].phase = ReadyStatus /\ store["nsA"].fin /\ ~store["nsA"].dt
    /\ provisioned["nsA"] = SubResources
    /\ Has("nsA", "AddFinalizerIfNotPresent", "noop")
    /\ \A i \in 1..Len(PhaseOps) : Has("nsA", PhaseOps[i], "ok")

----------------------------------------------------------------------------
\* The step in which setFailedStatus runs after createPools failed behind a
\* successful reconcileService.
PoolsFailedStep(k) ==
    /\ pc[k] = "setFailed" /\ pc'[k] # "setFailed"
    /\ Has(k, "reconcileService", "ok") /\ Has(k, "createPools", "err")
\* The step in which a call that found the stored Phase ReconcileFailed has run
\* its phases and persists Phase Ready.
RetryReadyStep(k) ==
    /\ pc[k] = "setReady" /\ pc'[k] # "setReady"
    /\ store[k].exists /\ store[k].phase = ReconcileFailedStatus

\* C13 (as claimed): when createPools fails after reconcileService succeeded
\* the call ends with stored Phase ReconcileFailed; a later call that starts
\* from ReconcileFailed and whose phases succeed has invoked reconcileService
\* once without creating a second endpoint, has run all phases, and ends with
\* stored Phase Ready.
C13_FailedPoolsThenRetry ==
    [][\A k \in Keys :
          /\ PoolsFailedStep(k) => store'[k].phase = ReconcileFailedStatus
          /\ RetryReadyStep(k) =>
                /\ Count(k, "reconcileService") = 1
                /\ provisioned[k] = SubResources
                /\ \A i \in 1..Len(PhaseOps) : Has(k, PhaseOps[i], "ok")
                /\ store'[k].phase = ReadyStatus]_vars

\* C13 (amended): when createPools fails after reconcileService succeeded the
\* call returns an error, and the stored Phase is ReconcileFailed if the
\* status write of setFailedStatus succeeds; if that write fails the stored
\* Phase stays as it was.  A later call that starts from ReconcileFailed and
\* reaches the final status write has invoked reconcileService exactly once
\* (the endpoint exists once), has run all five phases from validateStore on
\* with success, and ends with stored Phase Ready and done if that write
\* succeeds, and with ReconcileFailed and an error if it fails.
C13_FailedPoolsThenRetryIfWritesSucceed ==
    [][\A k \in Keys :
          /\ PoolsFailedStep(k) =>
                /\ ret'[k] = ErrRet
                /\ "endpoint" \in provisioned'[k]
                /\ Has(k, "UpdateStatus:ReconcileFailed", "ok")' =>
                      store'[k].phase = ReconcileFailedStatus
                /\ Has(k, "UpdateStatus:ReconcileFailed", "err")' =>
                      store'[k].phase = store[k].phase
          /\ RetryReadyStep(k) =>
                /\ Count(k, "reconcileService") = 1
                /\ provisioned[k] = SubResources /\ provisioned'[k] = SubResources
                /\ Phases(k) = [i \in 1..Len(PhaseOps) |-> Entry(PhaseOps[i], "ok")]
                /\ Has(k, "UpdateStatus:Ready", "ok")' =>
                      store'[k].phase = ReadyStatus /\ ret'[k] = DoneRet
                /\ Has(k, "UpdateStatus:Ready", "err")' =>
                      store'[k].phase = ReconcileFailedStatus /\ ret'[k] = ErrRet]_vars

\* The retry: the last call returned an error leaving Phase ReconcileFailed and
\* the endpoint but no pools; the call in flight is about to run
\* reconcileService again.
C13_Witness ==
    /\ pc["nsA"] = "service"
    /\ ret["nsA"] = ErrRet
    /\ store["nsA"].exists /\ store["nsA"].phase = ReconcileFailedStatus
    /\ provisioned["nsA"] = {"endpoint"}

----------------------------------------------------------------------------
\* C14: a call whose Get finds no record returns done (empty result, nil
\* error) and does nothing else: the Get is the only outside operation of the
\* call, so there is no status write, no finalizer write, no readiness query,
\* no provisioning and no teardown.
C14_NotFoundIsDoneAndDoesNothing ==
    \A k \in Keys :
        Has(k, "Get", "notFound") =>
            /\ Returned(k) /\ ret[k] = DoneRet
            /\ log[k] = <<Entry("Get", "notFound")>>
            /\ ~store[k].exists

\* The record was deleted and collected; the next call finds nothing.
C14_Witness ==
    /\ ~store["nsA"].exists /\ store["nsA"].dt /\ released["nsA"]
    /\ Has("nsA", "Get", "notFound")
    /\ ret["nsA"] = DoneRet

----------------------------------------------------------------------------
FinalizerOps == {"AddFinalizerIfNotPresent", "RemoveFinalizer"}

\* C15: when LoadClusterInfo fails on the ready path the call returns an error
\* at once: LoadClusterInfo is its last operation, no finalizer operation, no
\* phase and no deleteStore was invoked, and the stored Phase and finalizer are
\* those of the call's copy of the record.
C15_LoadClusterInfoFailureAborts ==
    \A k \in Keys :
        Has(k, "LoadClusterInfo", "err") =>
            /\ Returned(k) /\ ret[k] = ErrRet
            /\ Has(k, "IsReadyToReconcile", "ready")
            /\ log[k][Len(log[k])] = Entry("LoadClusterInfo", "err")
            /\ Ops(k) \cap (FinalizerOps \cup PhaseOpSet \cup {"deleteStore"}) = {}
            /\ store[k].phase = obj[k].phase
            /\ store[k].fin = obj[k].fin

\* LoadClusterInfo failed for a record that is Ready and carries the finalizer.
C15_Witness ==
    /\ Returned("nsA") /\ Has("nsA", "LoadClusterInfo", "err")
    /\ store["nsA"].exists /\ store["nsA"].phase = ReadyStatus /\ store["nsA"].fin
    /\ provisioned["nsA"] = SubResources

----------------------------------------------------------------------------
\* C16 (as claimed): a call in which any operation failed returns a non-nil
\* error; only a NotFound from Get is swallowed.
C16_EveryFailureIsReturned ==
    \A k \in Keys :
        (Returned(k) /\ \E i \in 1..Len(log[k]) : log[k][i].out = "err") => ret[k].err

\* C16 (amended): a call in which an operation other than the daemon-version
\* lookup failed returns a non-nil error; a call in which nothing else failed
\* returns no error, also when the daemon-version lookup failed (that failure
\* is only logged); a NotFound from Get returns done.
C16_EveryFailureButVersionLookupIsReturned ==
    \A k \in Keys :
        Returned(k) =>
            /\ ~NoStepFailed(k) => ret[k] = ErrRet
            /\ NoStepFailed(k) => ~ret[k].err
            /\ Has(k, "Get", "notFound") => ret[k] = DoneRet

\* A call with a failed version lookup, a failed phase and a failed status
\* write in setFailedStatus has returned the error.
C16_Witness ==
    /\ Returned("nsA") /\ ret["nsA"] = ErrRet
    /\ Has("nsA", "LeastUptodateDaemonVersion", "err")
    /\ Has("nsA", "createPools", "err")
    /\ Has("nsA", "UpdateStatus:ReconcileFailed", "err")

----------------------------------------------------------------------------
TwinDone == Returned("nsA") /\ Returned("nsB")
StatusWrites == {"UpdateStatus:Created", "UpdateStatus:ReconcileFailed", "UpdateStatus:Ready"}
StatusWritten(k) == \E op \in StatusWrites : Has(k, op, "ok")

\* C17 (as claimed): two calls on records that differ only in their
\* already-set Phase and that get the same answers from the outside invoke the
\* same operations in the same order, leave the same finalizer, return the
\* same result and error, and leave the same stored Phase.
C17_PhaseNeverDrivesBranching ==
    TwinDone =>
        /\ log["nsA"] = log["nsB"]
        /\ store["nsA"].fin = store["nsB"].fin
        /\ ret["nsA"] = ret["nsB"]
        /\ store["nsA"].phase = store["nsB"].phase

\* C17 (amended): two such calls invoke the same operations in the same order
\* with the same outcomes, leave the same finalizer and sub-resources and
\* return the same result and error; they leave the same stored Phase if the
\* call persisted a status, and if the call attempted no status write each
\* record keeps the Phase it had (the two still differ).
C17_PhaseOnlyWrittenNeverRead ==
    TwinDone =>
        /\ log["nsA"] = log["nsB"]
        /\ store["nsA"].fin = store["nsB"].fin
        /\ provisioned["nsA"] = provisioned["nsB"]
        /\ ret["nsA"] = ret["nsB"]
        /\ StatusWritten("nsA") => store["nsA"].phase = store["nsB"].phase
        /\ Ops("nsA") \cap StatusWrites = {} => store["nsA"].phase # store["nsB"].phase

\* Both calls tore the store down and removed the finalizer; the two records
\* still carry their different Phases.
C17_Witness ==
    /\ TwinDone
    /\ Has("nsA", "deleteStore", "ok") /\ Has("nsB", "deleteStore", "ok")
    /\ Has("nsA", "RemoveFinalizer", "ok") /\ Has("nsB", "RemoveFinalizer", "ok")
    /\ store["nsA"].phase = ReadyStatus /\ store["nsB"].phase = ReconcileFailedStatus

----------------------------------------------------------------------------
\* C18: in every call, each provisioning operation (reconcileService,
\* createPools, reconcileRealm, reconcileCreateObjectStore) comes after an
\* AddFinalizerIfNotPresent that returned success (the finalizer written, or
\* already present); and when AddFinalizerIfNotPresent fails the call returns
\* an error at once, with no phase and no deleteStore invoked.
C18_FinalizerBeforeProvisioning ==
    \A k \in Keys :
        /\ \A i \in 1..Len(log[k]) :
              log[k][i].op \in ProvisioningOps =>
                  \E j \in 1..(i - 1) :
                      /\ log[k][j].op = "AddFinalizerIfNotPresent"
                      /\ log[k][j].out \in {"ok", "noop"}
        /\ Has(k, "AddFinalizerIfNotPresent", "err") =>
              /\ Returned(k) /\ ret[k] = ErrRet
              /\ log[k][Len(log[k])] = Entry("AddFinalizerIfNotPresent", "err")
              /\ Ops(k) \cap (PhaseOpSet \cup {"deleteStore"}) = {}

\* A call wrote the finalizer and then provisioned the endpoint.
C18_Witness ==
    /\ Has("nsA", "AddFinalizerIfNotPresent", "ok")
    /\ Has("nsA", "reconcileService", "ok")
    /\ store["nsA"].fin /\ "endpoint" \in provisioned["nsA"]

----------------------------------------------------------------------------
\* C19 (as claimed): once a reconcile call has removed the finalizer of a
\* record that carries a deletion timestamp, no step of a later call on the
\* record, as long as it can be fetched, puts the finalizer back or invokes
\* deleteStore again.
C19_DeletionOnlyMovesForward ==
    [][\A k \in Keys :
          (released[k] /\ store[k].exists /\ store[k].dt) =>
              /\ ~store'[k].fin
              /\ ~(pc[k] = "deleteStore" /\ pc'[k] # "deleteStore")]_vars

----------------------------------------------------------------------------
\* C20: under the dispatcher's fairness, once the cluster stays ready and no
\* operation fails, a record without deletion timestamp eventually has stored
\* Phase Ready (unless it is marked for deletion first), and a record with a
\* deletion timestamp eventually has no finalizer, whatever state the record
\* and the calls were in.
C20_EventuallyReadyOrReleased ==
    \A k \in Keys :
        /\ (healthy /\ store[k].exists /\ ~store[k].dt) ~>
              (store[k].dt \/ store[k].phase = ReadyStatus)
        /\ (healthy /\ store[k].exists /\ store[k].dt) ~> ~store[k].fin

\* With the outside in order, a call that found the record at ReconcileFailed
\* has run its phases and is about to persist Phase Ready.
C20_Witness ==
    /\ healthy
    /\ pc["nsA"] = "setReady"
    /\ store["nsA"].exists /\ store["nsA"].phase = ReconcileFailedStatus
    /\ ret["nsA"] = ErrRet

====
